---- MODULE Spec2Model ----
(***************************************************************************)
(* Model of the tk-blender engine's Shotgun menu: the menu generator       *)
(* (python/tk_blender/menu_generation.py) and the engine entry point that  *)
(* drives it (engine.py).                                                  *)
(*                                                                         *)
(* Text is modelled as a sequence of one-character strings, so that        *)
(* str.split("/") and the lexicographic order used by sort are computed.   *)
(* The rendered QMenu is a flat sequence of nodes in creation order; a     *)
(* node's parent is the index of its parent menu, 0 for the menu handle.   *)
(* Qt appends actions, so creation order is display order.                 *)
(***************************************************************************)
EXTENDS Integers, Sequences, FiniteSets, TLC

VARIABLES
    commands,     \* engine.commands: insertion-ordered items of the dict
    favourites,   \* engine.get_setting("menu_favourites")
    context,      \* engine.context: [name, filesystem_locations]
    has_ui,       \* engine.has_ui (not bpy.app.background)
    platform,     \* sys.platform
    handle,       \* engine._menu_generator._handle: "none" | "menu" | "null"
    nodes,        \* the entries of the menu handle, in creation order
    enabled,      \* the menu handle's enabled flag
    lastCall,     \* the last create_menu call and how it ended
    pending,      \* QTimer.singleShot(0, ...) executions posted, not yet run
    triggered,    \* callbacks whose wrapper was called, in call order
    executed,     \* callbacks that ran and whether they raised, in order
    logged,       \* exceptions logged through the current engine's logger
    escaped,      \* exceptions that left a timer slot into the event loop
    jumps,        \* what the runs of _jump_to_fs did, in order
    frame,        \* the create_menu call the UI thread is in, if any
    automatic_context_switch,  \* engine.get_setting("automatic_context_switch")
    current_engine,  \* tank.platform.current_engine() is an engine
    filepath,     \* bpy.data.filepath
    load_post,    \* bpy.app.handlers.load_post
    save_post,    \* bpy.app.handlers.save_post
    dispatch,     \* the handler list the host is running, and how far it is
    lastRefresh,  \* the last refresh_engine call and how it ended
    lastHook,     \* the last post_context_change or teardown_app_handlers call
    reported,     \* errors on_scene_event_callback logged and reported
    host_errors,  \* exceptions that left a handler into the host's dispatch
    events,       \* scene events and context changes so far
    run_at_startup,  \* engine.get_setting("run_at_startup")
    startup,      \* what _run_app_instance_commands ran and logged
    environ,      \* os.environ: SGTK_ENGINE, SGTK_CONTEXT, SGTK_FILE_TO_OPEN
    boot          \* the calls of the bootstrap and how the last one went

vars == <<commands, favourites, context, has_ui, platform, handle, nodes,
          enabled, lastCall, pending, triggered, executed, logged, escaped,
          jumps, frame, automatic_context_switch, current_engine, filepath,
          load_post, save_post, dispatch, lastRefresh, lastHook, reported,
          host_errors, events, run_at_startup, startup, environ, boot>>

inputVars == <<commands, favourites, context, has_ui, platform>>
menuVars == <<handle, nodes, enabled, lastCall>>
loopVars == <<pending, triggered, executed, logged, escaped, jumps>>
uiVars == <<frame>>
handlerVars == <<load_post, save_post>>
sceneVars == <<filepath, dispatch, lastRefresh, reported, host_errors, events>>
startVars == <<run_at_startup, startup, environ, boot>>
hostVars == <<automatic_context_switch, current_engine, handlerVars, sceneVars,
              lastHook, startVars>>

-----------------------------------------------------------------------------
(* Bounds *)

MaxCmds == 2
MaxFavs == 2
MaxTriggers == 2
MaxLocs == 2
MaxEvents == 2
MaxEntries == 2
MaxCalls == 2

-----------------------------------------------------------------------------
(* Text *)

Sep == "/"

\* The printable characters the model's texts use, in code point order.
Alphabet ==
    <<" ", ".", "/", "A", "B", "C", "F", "I", "J", "L", "O", "P", "S",
      "a", "b", "d", "e", "g", "h", "i", "l", "m", "n", "o", "p", "r",
      "s", "t", "u", "y">>

Code(c) == CHOOSE i \in 1..Len(Alphabet) : Alphabet[i] = c

\* Python's str < str
RECURSIVE StrLess(_, _)
StrLess(s, t) ==
    IF t = <<>> THEN FALSE
    ELSE IF s = <<>> THEN TRUE
    ELSE IF Head(s) = Head(t) THEN StrLess(Tail(s), Tail(t))
    ELSE Code(Head(s)) < Code(Head(t))

RECURSIVE SplitAcc(_, _, _)
SplitAcc(s, cur, acc) ==
    IF s = <<>> THEN Append(acc, cur)
    ELSE IF Head(s) = Sep THEN SplitAcc(Tail(s), <<>>, Append(acc, cur))
    ELSE SplitAcc(Tail(s), Append(cur, Head(s)), acc)

\* name.split("/")
Split(s) == SplitAcc(s, <<>>, <<>>)

DisabledLabel ==
    <<"S","g","t","k"," ","i","s"," ","d","i","s","a","b","l","e","d",".">>
JumpToShotgunLabel ==
    <<"J","u","m","p"," ","t","o"," ","S","h","o","t","g","u","n">>
JumpToFileSystemLabel ==
    <<"J","u","m","p"," ","t","o"," ","F","i","l","e"," ","S","y","s","t","e","m">>
OtherItems == <<"O","t","h","e","r"," ","I","t","e","m","s">>

-----------------------------------------------------------------------------
(* The engine's apps and the commands they register *)

NoApp == "none"          \* the command's properties hold no "app" key
NoError == "none"
None == <<>>             \* no callback, no label

\* engine.apps.items(): app instance name -> app object
EngineApps ==
    << [instance |-> "loader",  app |-> "app1"],
       [instance |-> "publish", app |-> "app2"] >>

\* app.display_name
DisplayName(app) ==
    IF app = "app1" THEN <<"L","o","a","d","e","r">>
    ELSE <<"P","u","b","l","i","s","h">>

\* AppCommand.get_app_name: None is modelled by the empty text
GetAppName(cmd) == IF cmd.app # NoApp THEN DisplayName(cmd.app) ELSE None

\* AppCommand.get_app_instance_name: the first instance whose object is the
\* command's app, "none" when there is no app or no instance holds it
GetAppInstanceName(cmd) ==
    IF cmd.app = NoApp THEN "none"
    ELSE LET hits == {i \in 1..Len(EngineApps) : EngineApps[i].app = cmd.app}
         IN IF hits = {} THEN "none"
            ELSE EngineApps[CHOOSE i \in hits : \A j \in hits : i <= j].instance

\* get_type that loses the "type" property
GetTypeDefault(cmd) == "default"

\* AppCommand.get_type
GetType(cmd) == cmd.type

-----------------------------------------------------------------------------
(* The menu under construction: b = [nodes, enabled, err, favs, ctx]       *)
(* err is the exception that ended the build, favs the names of the        *)
(* AppCommands whose favourite flag is set, ctx the context submenu.       *)

Root == 0

Raise(b, e) == [b EXCEPT !.err = e]

Node(kind, label, parent, cb) ==
    [kind |-> kind, label |-> label, parent |-> parent, cb |-> cb,
     enabled |-> TRUE, checkable |-> FALSE, checked |-> FALSE]

\* MenuGenerator._add_divider
AddDivider(b, parent) ==
    [b EXCEPT !.nodes = Append(@, Node("separator", None, parent, None))]

\* MenuGenerator._add_sub_menu; the new menu is the last node
AddSubMenu(b, menu_name, parent) ==
    [b EXCEPT !.nodes = Append(@, Node("menu", menu_name, parent, None))]

\* What QAction offers: setToolTip and setStatusTip, but neither the
\* setTooltip nor the setStatustip that _add_menu_item calls.
SetTooltip(b, i) == Raise(b, "AttributeError")

\* action.setEnabled(properties["enable_callback"]())
SetEnabled(b, i, outcome) ==
    IF outcome = "raise" THEN Raise(b, "Exception")
    ELSE [b EXCEPT !.nodes[i].enabled = (outcome = "true")]

\* action.setCheckable(True); action.setChecked(properties.get("checkable"))
SetCheckable(b, i, value) ==
    [b EXCEPT !.nodes[i].checkable = TRUE, !.nodes[i].checked = (value = "true")]

\* if "tooltip" in properties
ApplyTooltip(b, props) ==
    IF props.tooltip THEN SetTooltip(b, Len(b.nodes)) ELSE b

\* if "enable_callback" in properties
ApplyEnabled(b, props) ==
    IF b.err = NoError /\ props.enable # "absent"
    THEN SetEnabled(b, Len(b.nodes), props.enable) ELSE b

\* if "checkable" in properties
ApplyCheckable(b, props) ==
    IF b.err = NoError /\ props.checkable # "absent"
    THEN SetCheckable(b, Len(b.nodes), props.checkable) ELSE b

\* parent_menu.addAction(QtGui.QAction(name, parent_menu))
AddAction(b, name, parent, cb) ==
    [b EXCEPT !.nodes = Append(@, Node("action", name, parent, cb))]

\* MenuGenerator._add_menu_item: the action is added to the menu first and
\* its properties are applied afterwards, an exception ending the call.
AddMenuItem(b, name, parent, cb, props) ==
    ApplyCheckable(
        ApplyEnabled(ApplyTooltip(AddAction(b, name, parent, cb), props), props),
        props)

\* AppCommand._find_sub_menu_item: add_command_to_menu calls it, and neither
\* AppCommand nor any base class defines it: the attribute lookup raises.
FindSubMenuItem(b, parent, label) ==
    [raised |-> TRUE, error |-> "AttributeError", menu |-> Root]

\* The loop of AppCommand.add_command_to_menu over parts[:-1], then the leaf.
RECURSIVE PlaceParts(_, _, _, _)
PlaceParts(b, cmd, parts, parent) ==
    IF b.err # NoError THEN b
    ELSE IF Len(parts) = 1
    THEN AddMenuItem(b, parts[1], parent, cmd.name, cmd)
    ELSE LET found == FindSubMenuItem(b, parent, parts[1]) IN
         IF found.raised THEN Raise(b, found.error)
         ELSE IF found.menu # Root
         THEN PlaceParts(b, cmd, Tail(parts), found.menu)
         ELSE LET b1 == AddSubMenu(b, parts[1], parent)
              IN PlaceParts(b1, cmd, Tail(parts), Len(b1.nodes))

\* AppCommand.add_command_to_menu
AddCommandToMenu(b, cmd, menu) ==
    IF b.err # NoError THEN b ELSE PlaceParts(b, cmd, Split(cmd.name), menu)

-----------------------------------------------------------------------------
(* MenuGenerator.create_menu *)

\* _add_menu_item called without properties
NoProps == [tooltip |-> FALSE, enable |-> "absent", checkable |-> "absent"]

JumpToSg == <<"_jump_to_sg">>
JumpToFs == <<"_jump_to_fs">>

\* MenuGenerator._add_context_menu; the context submenu is node b.ctx
\* The entries of the context submenu m, the last node of b
FillContextMenu(b, m, ctx) ==
    AddDivider(
        IF ctx.filesystem_locations # <<>>
        THEN AddMenuItem(
                 AddMenuItem(AddDivider(b, m), JumpToShotgunLabel, m, JumpToSg, NoProps),
                 JumpToFileSystemLabel, m, JumpToFs, NoProps)
        ELSE AddMenuItem(AddDivider(b, m), JumpToShotgunLabel, m, JumpToSg, NoProps),
        m)

AddContextMenu(b, ctx) ==
    FillContextMenu([b EXCEPT !.nodes = Append(@, Node("menu", ctx.name, Root, None)),
                              !.ctx = Len(b.nodes) + 1],
                    Len(b.nodes) + 1, ctx)

\* list.sort(key=lambda x: x.name): a stable insertion sort
RECURSIVE InsertByName(_, _)
InsertByName(sorted, c) ==
    IF sorted = <<>> THEN <<c>>
    ELSE IF StrLess(c.name, Head(sorted).name) THEN <<c>> \o sorted
    ELSE <<Head(sorted)>> \o InsertByName(Tail(sorted), c)

\* list.sort that leaves the list as it is
SortByNameKeep(items) == items

RECURSIVE SortByName(_)
SortByName(items) ==
    IF items = <<>> THEN <<>>
    ELSE InsertByName(SortByName(SubSeq(items, 1, Len(items) - 1)),
                      items[Len(items)])

\* sorted(commands_by_app.keys())
RECURSIVE SortedTexts(_)
SortedTexts(S) ==
    IF S = {} THEN <<>>
    ELSE LET m == CHOOSE x \in S : \A y \in S \ {x} : StrLess(x, y)
         IN <<m>> \o SortedTexts(S \ {m})

\* cmd.favourite = True, reached when add_command_to_menu returned
MarkFavourite(b, cmd) ==
    IF b.err = NoError THEN [b EXCEPT !.favs = @ \cup {cmd.name}] ELSE b

\* One favourite against every menu item, in menu_items order: each match
\* is added to the top-level menu and then flagged (no break on a match).
RECURSIVE ScanFavourite(_, _, _)
ScanFavourite(b, fav, items) ==
    IF b.err # NoError \/ items = <<>> THEN b
    ELSE LET cmd == Head(items) IN
         IF GetAppInstanceName(cmd) = fav.app_instance /\ cmd.name = fav.name
         THEN ScanFavourite(MarkFavourite(AddCommandToMenu(b, cmd, Root), cmd),
                            fav, Tail(items))
         ELSE ScanFavourite(b, fav, Tail(items))

\* A favourites loop that takes an entry no command matches for an error
RECURSIVE AddFavouritesStrict(_, _, _)
AddFavouritesStrict(b, favs, items) ==
    IF b.err # NoError \/ favs = <<>> THEN b
    ELSE IF \A i \in 1..Len(items) :
               ~( /\ GetAppInstanceName(items[i]) = Head(favs).app_instance
                  /\ items[i].name = Head(favs).name )
    THEN Raise(b, "KeyError")
    ELSE AddFavouritesStrict(ScanFavourite(b, Head(favs), items), Tail(favs), items)

\* for fav in self._engine.get_setting("menu_favourites")
RECURSIVE AddFavourites(_, _, _)
AddFavourites(b, favs, items) ==
    IF b.err # NoError \/ favs = <<>> THEN b
    ELSE AddFavourites(ScanFavourite(b, Head(favs), items), Tail(favs), items)

\* The key of commands_by_app a command is filed under
GroupLabel(cmd) ==
    LET app_name == GetAppName(cmd)
    IN IF app_name = None THEN OtherItems ELSE app_name

IsContextCommand(cmd) == GetType(cmd) = "context_menu"

\* The first half of the loop "for cmd in menu_items": context menu commands
\* go to the context submenu as they are met
RECURSIVE AddContextCommands(_, _)
AddContextCommands(b, items) ==
    IF b.err # NoError \/ items = <<>> THEN b
    ELSE IF IsContextCommand(Head(items))
    THEN AddContextCommands(AddCommandToMenu(b, Head(items), b.ctx), Tail(items))
    ELSE AddContextCommands(b, Tail(items))

\* commands_by_app[app_name]: the other commands of that label, in
\* menu_items order
CommandsByApp(items, label) ==
    SelectSeq(items, LAMBDA c : ~IsContextCommand(c) /\ GroupLabel(c) = label)

RECURSIVE AddCommands(_, _, _)
AddCommands(b, cmds, menu) ==
    IF b.err # NoError \/ cmds = <<>> THEN b
    ELSE AddCommands(AddCommandToMenu(b, Head(cmds), menu), Tail(cmds), menu)

\* One iteration of the loop of _add_app_menu
AddAppGroup(b, app_name, cmds) ==
    IF Len(cmds) > 1
    THEN AddCommands(AddSubMenu(b, app_name, Root), SortByName(cmds),
                     Len(b.nodes) + 1)
    ELSE IF cmds[1].name \notin b.favs
    THEN AddCommandToMenu(b, cmds[1], Root)
    ELSE b

RECURSIVE AddAppGroups(_, _, _)
AddAppGroups(b, labels, items) ==
    IF b.err # NoError \/ labels = <<>> THEN b
    ELSE AddAppGroups(AddAppGroup(b, Head(labels), CommandsByApp(items, Head(labels))),
                      Tail(labels), items)

\* MenuGenerator._add_app_menu
\* A divider, unless an exception has ended the build
Divider(b) == IF b.err # NoError THEN b ELSE AddDivider(b, Root)

AppLabels(items) ==
    SortedTexts({GroupLabel(items[i]) :
                    i \in {j \in 1..Len(items) : ~IsContextCommand(items[j])}})

AddAppMenu(b, items) ==
    Divider(AddAppGroups(b, AppLabels(items), items))

\* clear() that removes nothing
ClearNothing(old) == old

\* self._handle.clear()
Clear(old) == <<>>

\* A handle enabled again however the build ended
EnableHandleAlways(b) == [b EXCEPT !.enabled = TRUE]

\* self._handle.setEnabled(True), reached when nothing raised
EnableHandle(b) == IF b.err # NoError THEN b ELSE [b EXCEPT !.enabled = TRUE]

\* create_menu from the favourites on, menu_items being sorted
AddSections(b, favs, menu_items) ==
    EnableHandle(
        AddAppMenu(
            AddContextCommands(Divider(AddFavourites(b, favs, menu_items)),
                               menu_items),
            menu_items))

\* create_menu from self._handle.setEnabled(False) on, for a handle that
\* holds start
BuildMenu(start, cmds, favs, ctx) ==
    AddSections(
        AddDivider(
            AddContextMenu([nodes |-> start, enabled |-> FALSE, err |-> NoError,
                            favs |-> {}, ctx |-> Root], ctx),
            Root),
        favs, SortByName(cmds))

\* What a build reads from the engine: context (line 199), commands (116)
\* and the menu_favourites setting (125), all before a command is placed
EngineReads == {"context", "commands", "menu_favourites"}

Outcome(b) ==
    [nodes |-> b.nodes, enabled |-> b.enabled, err |-> b.err,
     reads |-> EngineReads]

\* A handle that is always taken for a menu
HandleAlwaysThere(h) == FALSE

\* if not self._handle
NoHandle(h) == h # "menu"

\* MenuGenerator.create_menu on a generator whose handle is h and holds old:
\* what the handle holds afterwards, its enabled flag, the exception raised
CreateMenuOn(h, old, wasEnabled, disabled, cmds, favs, ctx) ==
    IF NoHandle(h)
    THEN [nodes |-> old, enabled |-> wasEnabled, err |-> NoError, reads |-> {}]
    ELSE IF disabled
    THEN [nodes |-> Append(Clear(old), Node("menu", DisabledLabel, Root, None)),
          enabled |-> wasEnabled, err |-> NoError, reads |-> {}]
    ELSE Outcome(BuildMenu(Clear(old), cmds, favs, ctx))

\* The record of a create_menu call: its argument, the exception it raised,
\* what it read from the engine, and what it found: the entries the handle
\* held, the faults logged and the executions posted so far
Call(disabled, r, old, loop) ==
    [op |-> "create_menu", disabled |-> disabled, err |-> r.err,
     reads |-> r.reads,
     before |-> Len(old), faults |-> loop.logged, posted |-> Len(loop.pending)]

\* What QtGui.QMenu(menu_name) leaves in MenuGenerator._handle: a menu, or
\* the falsy handle create_menu bails out on
HandleOutcomes == {"menu", "null"}

Loop == [pending |-> pending, executed |-> executed,
         logged |-> logged, escaped |-> escaped, jumps |-> jumps]

\* The handle, its entries and the record of the call after create_menu
SetMenu(h, r, disabled, old, loop) ==
    /\ handle' = h
    /\ nodes' = r.nodes
    /\ enabled' = r.enabled
    /\ lastCall' = Call(disabled, r, old, loop)

\* MenuGenerator.create_menu called again on the engine's generator
CreateMenu(disabled) ==
    /\ handle # "none"
    /\ SetMenu(handle,
               CreateMenuOn(handle, nodes, enabled, disabled,
                            commands, favourites, context),
               disabled, nodes, Loop)
    /\ UNCHANGED <<inputVars, loopVars, uiVars, hostVars>>

\* BlenderEngine.create_shotgun_menu: a new MenuGenerator (a new, empty and
\* enabled QMenu) replaces the engine's, then create_menu runs on it
CreateShotgunMenu(disabled) ==
    /\ IF has_ui
       THEN \E h \in HandleOutcomes :
              SetMenu(h,
                      CreateMenuOn(h, <<>>, TRUE, disabled,
                                   commands, favourites, context),
                      disabled, <<>>, Loop)
       ELSE UNCHANGED menuVars
    /\ UNCHANGED <<inputVars, loopVars, uiVars, hostVars>>

-----------------------------------------------------------------------------
(* The deferred callback wrapper and the event loop *)

\* A timer that is not posted again while the same callback is posted
SingleShotCoalesced(queue, cb) ==
    IF \E i \in 1..Len(queue) : queue[i] = cb THEN queue ELSE Append(queue, cb)

\* QtCore.QTimer.singleShot(0, f): one more execution posted
SingleShot(queue, cb) == Append(queue, cb)

\* A wrapper that runs the callback inside the triggering call
CallbackCallSync(loop, cb) ==
    [loop EXCEPT !.executed = Append(@, [cb |-> cb, raised |-> FALSE])]

\* Callback.__call__(*_): the arguments are dropped, the execution is posted
CallbackCall(loop, cb) ==
    [loop EXCEPT !.pending = SingleShot(@, cb)]

\* A trap that logs nothing and lets the exception go on to the event loop
ExceptionTrapReraise(loop, raised) ==
    IF raised THEN [loop EXCEPT !.escaped = @ + 1] ELSE loop

\* The except clause of Callback._execute_within_exception_trap:
\* current_engine().logger.exception(...), nothing raised again
ExceptionTrap(loop, raised) ==
    IF raised THEN [loop EXCEPT !.logged = @ + 1] ELSE loop

\* self.callback() was called and returned or raised
Ran(loop, cb, raised) ==
    [loop EXCEPT !.executed = Append(@, [cb |-> cb, raised |-> raised])]

\* is_linux(), is_macos(), is_windows() on sys.platform
IsLinux(system) == system = "linux"
IsMacos(system) == system = "darwin"
IsWindows(system) == system = "win32"

\* A platform test that takes every platform for a supported one
IsSupportedAlways(system) == TRUE

\* The else branch of _jump_to_fs is not taken
IsSupported(system) == IsLinux(system) \/ IsMacos(system) \/ IsWindows(system)

\* args[0], the program subprocess is asked to run
Program(system) ==
    IF IsLinux(system) THEN "xdg-open"
    ELSE IF IsMacos(system) THEN "open \"%s\""
    ELSE "cmd.exe"

\* How subprocess.check_output(args, shell=False) can end: the output is
\* returned when the program exits with 0, CalledProcessError is raised when
\* it exits with another code, OSError when the program cannot be started;
\* no program is called 'open "%s"'
LaunchOutcomes(system) ==
    IF IsMacos(system) THEN {"OSError"} ELSE {"returned", "CalledProcessError"}

\* One launch in the journal: the comparison of the returned output with 0
\* is never equal, so logger.error is called after every launch that returns
Launch(run, system, disk_location, outcome) ==
    [run |-> run, kind |-> "launch", program |-> Program(system),
     path |-> disk_location, outcome |-> outcome,
     error_logged |-> (outcome = "returned")]

\* raise Exception("Platform '%s' is not supported." % system)
Unsupported(run, system) ==
    [run |-> run, kind |-> "raise", program |-> "", path |-> "",
     outcome |-> system, error_logged |-> FALSE]

\* The loop of MenuGenerator._jump_to_fs over the filesystem locations:
\* what it did and whether an exception left it
RECURSIVE JumpLoop(_, _, _, _, _)
JumpLoop(run, system, paths, outcomes, journal) ==
    IF paths = <<>> THEN [journal |-> journal, raised |-> FALSE]
    ELSE IF ~IsSupported(system)
    THEN [journal |-> Append(journal, Unsupported(run, system)), raised |-> TRUE]
    ELSE IF Head(outcomes) # "returned"
    THEN [journal |-> Append(journal, Launch(run, system, Head(paths), Head(outcomes))),
          raised |-> TRUE]
    ELSE JumpLoop(run, system, Tail(paths), Tail(outcomes),
                  Append(journal, Launch(run, system, Head(paths), Head(outcomes))))

\* MenuGenerator._jump_to_fs
JumpToFsRun(run, system, paths, outcomes) ==
    JumpLoop(run, system, paths, outcomes, <<>>)

RemoveAt(q, i) == SubSeq(q, 1, i - 1) \o SubSeq(q, i + 1, Len(q))

Command(name) ==
    commands[CHOOSE i \in 1..Len(commands) : commands[i].name = name]

\* What the callback behind cb does when it is called
CallbackKind(cb) ==
    IF cb = JumpToSg THEN {"ok"}
    ELSE IF cb = JumpToFs THEN {"jump"}
    ELSE {Command(cb).callback}

SetLoop(loop) ==
    /\ pending' = loop.pending
    /\ executed' = loop.executed
    /\ logged' = loop.logged
    /\ escaped' = loop.escaped
    /\ jumps' = loop.jumps

\* The user picks the action at node n of the menu: QAction.triggered calls
\* the connected Callback with the checked state
Trigger(n) ==
    /\ handle = "menu"
    /\ enabled
    /\ Len(triggered) < MaxTriggers
    /\ n \in 1..Len(nodes)
    /\ nodes[n].kind = "action"
    /\ nodes[n].enabled
    /\ nodes[n].cb # None
    /\ SetLoop(CallbackCall(Loop, nodes[n].cb))
    /\ triggered' = Append(triggered, nodes[n].cb)
    /\ UNCHANGED <<inputVars, menuVars, uiVars, hostVars>>

\* Callback._execute_within_exception_trap for a callback that raised or not
Trapped(loop, cb, raised) == ExceptionTrap(Ran(loop, cb, raised), raised)

\* A command that calls engine.create_shotgun_menu(): the engine's menu is
\* r afterwards, and the exception create_menu raised leaves the callback
Rebuild(h, r, loop, cb) ==
    /\ SetMenu(h, r, FALSE, <<>>, loop)
    /\ SetLoop(Trapped(loop, cb, r.err # NoError))

\* The execution at position i of pending, taken off the posted ones
Taken(i) == [Loop EXCEPT !.pending = RemoveAt(@, i)]

\* _jump_to_fs ran as the callback cb and ended as r says
Jumped(loop, cb, r) ==
    Trapped([loop EXCEPT !.jumps = @ \o r.journal], cb, r.raised)

\* The event loop runs one posted execution:
\* Callback._execute_within_exception_trap
Tick(i) ==
    /\ i \in 1..Len(pending)
    /\ \E kind \in CallbackKind(pending[i]) :
         IF kind = "rebuild" /\ has_ui
         THEN \E h \in HandleOutcomes :
                Rebuild(h,
                        CreateMenuOn(h, <<>>, TRUE, FALSE,
                                     commands, favourites, context),
                        Taken(i), pending[i])
         ELSE IF kind = "jump"
         THEN /\ UNCHANGED menuVars
              /\ \E outcomes \in [1..Len(context.filesystem_locations)
                                    -> LaunchOutcomes(platform)] :
                    SetLoop(Jumped(Taken(i), pending[i],
                                   JumpToFsRun(Len(executed) + 1, platform,
                                               context.filesystem_locations,
                                               outcomes)))
         ELSE /\ UNCHANGED menuVars
              /\ SetLoop(Trapped(Taken(i), pending[i], kind = "raise"))
    /\ UNCHANGED <<inputVars, triggered, uiVars, hostVars>>

-----------------------------------------------------------------------------
(* create_menu in two steps: up to self._handle.setEnabled(False), and the *)
(* rest. The UI thread is the only thread, and create_menu neither returns *)
(* to the event loop nor runs a nested one before it ends.                 *)

\* The UI thread is in the event loop, in no create_menu call
NoFrame == [active |-> FALSE, by |-> None, before |-> <<>>]

\* A create_menu(disabled=False) call that cleared the menu and has not
\* rendered it yet, made by the callback by (None: by the engine) on a
\* handle that held the entries before
Frame(by, before) == [active |-> TRUE, by |-> by, before |-> before]

\* An event loop that delivers timers inside a running handler too
CanDeliverAlways(f) == TRUE

\* A timer slot (and any other event) is invoked from the event loop, that
\* is when the handler before it has returned
CanDeliver(f) == ~f.active

\* create_menu lines 97-106 on a menu handle: clear(), setEnabled(False)
Cleared(h, before, by) ==
    /\ handle' = h
    /\ nodes' = Clear(before)
    /\ enabled' = FALSE
    /\ frame' = Frame(by, before)
    /\ UNCHANGED <<lastCall, inputVars, hostVars>>

\* create_menu is called again on the engine's generator
BeginCreateMenu ==
    /\ CanDeliver(frame)
    /\ handle = "menu"
    /\ Cleared(handle, nodes, None)
    /\ UNCHANGED loopVars

\* engine.create_shotgun_menu() is called from an event handler: a new
\* generator with a new menu, create_menu on it
BeginShotgunMenu ==
    /\ CanDeliver(frame)
    /\ has_ui
    /\ Cleared("menu", <<>>, None)
    /\ UNCHANGED loopVars

\* The event loop runs the posted execution i, a command that calls
\* engine.create_shotgun_menu()
BeginCallback(i) ==
    /\ CanDeliver(frame)
    /\ i \in 1..Len(pending)
    /\ "rebuild" \in CallbackKind(pending[i])
    /\ has_ui
    /\ Cleared("menu", <<>>, pending[i])
    /\ pending' = RemoveAt(pending, i)
    /\ UNCHANGED <<triggered, executed, logged, escaped, jumps>>

\* create_menu lines 109-163, and the return to the event loop: through
\* the exception trap when a callback made the call
Populated(r) ==
    IF frame.by = None
    THEN /\ SetMenu(handle, r, FALSE, frame.before, Loop)
         /\ UNCHANGED loopVars
    ELSE /\ SetMenu(handle, r, FALSE, frame.before, Loop)
         /\ SetLoop(Trapped(Loop, frame.by, r.err # NoError))
         /\ UNCHANGED triggered

Populate ==
    /\ frame.active
    /\ Populated(Outcome(BuildMenu(nodes, commands, favourites, context)))
    /\ frame' = NoFrame
    /\ UNCHANGED <<inputVars, hostVars>>

\* The event loop runs the posted execution i, a command that does not
\* rebuild the menu
TickIdle(i) ==
    /\ CanDeliver(frame)
    /\ i \in 1..Len(pending)
    /\ "rebuild" \notin CallbackKind(pending[i])
    /\ Tick(i)

-----------------------------------------------------------------------------
(* Inputs *)

A == <<"A">>
B == <<"B">>
C == <<"C">>
A_B == <<"A", "/", "B">>
A_C == <<"A", "/", "C">>
A_B_C == <<"A", "/", "B", "/", "C">>

Cmd(name, app, type) ==
    [name |-> name, app |-> app, type |-> type, callback |-> "ok",
     tooltip |-> FALSE, enable |-> "absent", checkable |-> "absent"]

\* The commands the menu specification draws engine.commands from
CmdUniverse ==
    { Cmd(A, "app1", "default"), Cmd(A, "app1", "context_menu"),
      Cmd(B, "app1", "default"),
      [Cmd(B, "app2", "default") EXCEPT !.enable = "false", !.checkable = "true"],
      Cmd(B, NoApp, "default"),
      [Cmd(C, "app2", "default") EXCEPT !.tooltip = TRUE],
      Cmd(C, NoApp, "context_menu"),
      Cmd(A_B, "app1", "default"), Cmd(A_C, "app1", "default"),
      Cmd(A_B_C, NoApp, "default") }

\* The commands the dispatch specification draws engine.commands from
DispatchUniverse ==
    { Cmd(A, "app1", "default"),
      [Cmd(A, "app1", "default") EXCEPT !.callback = "raise"],
      [Cmd(B, "app1", "default") EXCEPT !.callback = "rebuild"],
      [Cmd(B, "app2", "context_menu") EXCEPT !.callback = "raise"],
      Cmd(A_B, "app1", "default") }

\* dict items: insertion-ordered, the keys (names) distinct
CommandItems(U, n) ==
    { s \in UNION { [1..k -> U] : k \in 0..n } :
        \A i, j \in 1..Len(s) : i # j => s[i].name # s[j].name }

Fav(app_instance, name) == [app_instance |-> app_instance, name |-> name]

FavUniverse == { Fav("loader", A), Fav("publish", B), Fav("loader", A_B) }

\* menu_favourites lists of at most n entries, no entry configured twice
FavLists(n) ==
    { s \in UNION { [1..k -> FavUniverse] : k \in 0..n } :
        \A i, j \in 1..Len(s) : i # j => s[i] # s[j] }

ContextName == <<"S","h","o","t">>

Contexts ==
    { [name |-> ContextName, filesystem_locations |-> locs] :
        locs \in { <<>>, <<"p1">> } }

NoCall == [op |-> "none", disabled |-> FALSE, err |-> NoError, reads |-> {},
           before |-> 0, faults |-> 0, posted |-> 0]

\* No scene event handled yet
NoDispatch == [kind |-> "none", pos |-> 0]
NoRefresh == [outcome |-> "none", asked |-> FALSE, before |-> None,
              derived |-> None, result |-> "none"]
NoHook == [op |-> "none", old |-> None, new |-> None, setup |-> FALSE, menu |-> FALSE]

\* Nothing run at startup yet
NoStartup == [done |-> FALSE, log |-> <<>>, raised |-> FALSE]

\* None of the bootstrap's variables is in the environment
NoEnviron == [SGTK_ENGINE |-> "unset", SGTK_CONTEXT |-> "unset",
              SGTK_FILE_TO_OPEN |-> "unset"]

\* The bootstrap has not been called
NoBoot == [calls |-> 0, started |-> 0, op |-> "none", trace |-> <<>>,
           ended |-> "none", env |-> NoEnviron, running |-> FALSE]

\* No startup command configured, the bootstrap not called
StartIdle ==
    /\ run_at_startup = <<>>
    /\ startup = NoStartup
    /\ environ = NoEnviron
    /\ boot = NoBoot

\* The host as the engine finds it: no handler registered, no scene saved
HostIdle ==
    /\ automatic_context_switch = TRUE
    /\ current_engine = TRUE
    /\ filepath = ""
    /\ load_post = <<>>
    /\ save_post = <<>>
    /\ dispatch = NoDispatch
    /\ lastRefresh = NoRefresh
    /\ lastHook = NoHook
    /\ reported = 0
    /\ host_errors = 0
    /\ events = 0
    /\ StartIdle

\* After BlenderEngine.__init__: no menu generator, nothing posted
MenuInitState ==
    /\ handle = "none"
    /\ nodes = <<>>
    /\ enabled = TRUE
    /\ lastCall = NoCall
    /\ pending = <<>>
    /\ triggered = <<>>
    /\ executed = <<>>
    /\ logged = 0
    /\ escaped = 0
    /\ jumps = <<>>
    /\ frame = NoFrame

InitState == MenuInitState /\ HostIdle

-----------------------------------------------------------------------------
(* Specifications *)

\* Menu building, over the commands, favourites and contexts of the bounds
Init ==
    /\ commands \in CommandItems(CmdUniverse, MaxCmds)
    /\ favourites \in FavLists(MaxFavs)
    /\ context \in Contexts
    /\ has_ui = TRUE
    /\ platform = "linux"
    /\ InitState

Next ==
    \E disabled \in BOOLEAN :
        \/ CreateShotgunMenu(disabled)
        \/ CreateMenu(disabled)

Spec == Init /\ [][Next]_vars

\* Menu actions triggered by the user and run by the event loop
InitDispatch ==
    /\ commands \in CommandItems(DispatchUniverse, MaxCmds)
    /\ favourites = <<>>
    /\ context \in Contexts
    /\ has_ui \in BOOLEAN
    /\ platform = "linux"
    /\ InitState

NextDispatch ==
    \/ \E disabled \in BOOLEAN : CreateShotgunMenu(disabled)
    \/ \E n \in 1..Len(nodes) : Trigger(n)
    \/ \E i \in 1..Len(pending) : Tick(i)

SpecDispatch == InitDispatch /\ [][NextDispatch]_vars

\* The same, for commands that return or raise; the menu is rebuilt by the
\* engine. The Qt event loop delivers every expired timer.
InitDeliver ==
    /\ InitDispatch
    /\ \A i \in 1..Len(commands) : commands[i].callback # "rebuild"

Deliver == \E i \in 1..Len(pending) : Tick(i)

SpecDeliver == InitDeliver /\ [][NextDispatch]_vars /\ WF_vars(Deliver)

\* Menu rebuilds in two steps, by the engine and by commands
InitRebuild ==
    /\ InitDispatch
    /\ has_ui

NextRebuild ==
    \/ CanDeliver(frame) /\ CreateShotgunMenu(TRUE)
    \/ BeginCreateMenu
    \/ BeginShotgunMenu
    \/ \E i \in 1..Len(pending) : BeginCallback(i)
    \/ Populate
    \/ \E n \in 1..Len(nodes) : Trigger(n)
    \/ \E i \in 1..Len(pending) : TickIdle(i)

SpecRebuild == InitRebuild /\ [][NextRebuild]_vars

\* Commands with an enable_callback: one that answers True, one that
\* answers False, one that raises
EnableUniverse ==
    { Cmd(A, "app1", "default"),
      [Cmd(B, "app1", "default") EXCEPT !.enable = "raise"],
      [Cmd(B, "app2", "default") EXCEPT !.enable = "true"],
      [Cmd(C, "app2", "default") EXCEPT !.enable = "false"] }

\* Menu creations in two steps over these commands
InitEnable ==
    /\ commands \in CommandItems(EnableUniverse, MaxCmds)
    /\ favourites \in FavLists(MaxFavs)
    /\ context \in Contexts
    /\ has_ui = TRUE
    /\ platform = "linux"
    /\ InitState

NextEnable ==
    \/ CanDeliver(frame) /\ CreateShotgunMenu(TRUE)
    \/ BeginCreateMenu
    \/ BeginShotgunMenu
    \/ Populate

SpecEnable == InitEnable /\ [][NextEnable]_vars

\* The platforms the interpreter may report
Platforms == {"linux", "darwin", "win32", "sunos5"}

Paths == <<"p1", "p2", "p3", "p4">>

\* Contexts with up to MaxLocs filesystem locations
JumpContexts ==
    { [name |-> ContextName, filesystem_locations |-> SubSeq(Paths, 1, n)] :
        n \in 0..MaxLocs }

\* The actions of the context submenu, on every platform
InitJump ==
    /\ commands \in CommandItems({Cmd(A, "app1", "default")}, 1)
    /\ favourites = <<>>
    /\ context \in JumpContexts
    /\ has_ui = TRUE
    /\ platform \in Platforms
    /\ InitState

SpecJump == InitJump /\ [][NextDispatch]_vars

\* The same entries of a dict in every insertion order
Reordered(items) ==
    { [i \in 1..Len(items) |-> items[p[i]]] : p \in Permutations(1..Len(items)) }

\* The engine is started again: its apps register the same commands, in
\* whatever order they are loaded, and post_app_init creates the menu
PostAppInit ==
    \E items \in Reordered(commands) :
        /\ commands' = items
        /\ IF has_ui
           THEN \E h \in HandleOutcomes :
                  SetMenu(h,
                          CreateMenuOn(h, <<>>, TRUE, FALSE,
                                       items, favourites, context),
                          FALSE, <<>>, Loop)
           ELSE UNCHANGED menuVars
        /\ UNCHANGED <<favourites, context, has_ui, platform, loopVars, uiVars,
                       hostVars>>

\* Menu building with engine restarts that change the insertion order
NextReorder == Next \/ PostAppInit

SpecReorder == Init /\ [][NextReorder]_vars

-----------------------------------------------------------------------------
(* Scene events and context changes *)

\* The functions the handler lists are asked about
OnSceneEvent == "on_scene_event_callback"
RefreshFn == "refresh_engine"

\* x in list
Contains(list, x) == \E i \in 1..Len(list) : list[i] = x

\* list.remove(x): the first occurrence goes
Remove(list, x) ==
    LET i == CHOOSE k \in 1..Len(list) :
                 list[k] = x /\ \A j \in 1..(k - 1) : list[j] # x
    IN SubSeq(list, 1, i - 1) \o SubSeq(list, i + 1, Len(list))

\* teardown_app_handlers on one handler list: the list is asked for
\* refresh_engine, and on_scene_event_callback is what it would remove
TeardownAppHandlers(list) ==
    IF Contains(list, RefreshFn) THEN Remove(list, OnSceneEvent) ELSE list

\* setup_app_handlers on one handler list
SetupAppHandlers(list) == Append(TeardownAppHandlers(list), OnSceneEvent)

\* The handler lists after the setting was read by init_engine or
\* post_context_change
HandlersSetUp ==
    IF automatic_context_switch
    THEN /\ load_post' = SetupAppHandlers(load_post)
         /\ save_post' = SetupAppHandlers(save_post)
    ELSE UNCHANGED handlerVars

\* The contexts of the scenes: a shot, an asset, and the project's
ShotContext == [name |-> ContextName, filesystem_locations |-> <<"p1">>]
AssetContext ==
    [name |-> <<"A","s","s","e","t">>, filesystem_locations |-> <<"p1">>]
ProjectContext == [name |-> <<"P","r","o","j">>, filesystem_locations |-> <<>>]

\* bpy.data.filepath: a scene never saved, scenes of two contexts, a scene
\* under the project without a context of its own, a scene outside Toolkit
UnsavedPaths == {"", "Untitled.blend"}
ScenePaths == UnsavedPaths \cup {"shot.blend", "asset.blend", "loose.blend",
                                 "alien.blend"}

\* tank.sgtk_from_path raises TankError for a path no pipeline knows
SgtkFromPath(path) == IF path = "alien.blend" THEN "TankError" ELSE "tk"

\* tk.context_from_path, None when the path carries no context
ContextFromPath(path) ==
    IF path = "shot.blend" THEN ShotContext
    ELSE IF path = "asset.blend" THEN AssetContext
    ELSE None

\* A test that takes every derived context for a new one
ContextDiffersAlways(ctx, current) == TRUE

\* ctx != current_context of refresh_engine
ContextDiffers(ctx, current) == ctx # current

\* The context refresh_engine derives, the project's when the path has none
DerivedContext(path) ==
    IF ContextFromPath(path) = None THEN ProjectContext ELSE ContextFromPath(path)

\* refresh_engine up to its last test: how it ends, or the context it asks
\* the engine to change to
RefreshEngine(engine, path, current) ==
    IF ~engine
    THEN [outcome |-> "no_engine", asked |-> FALSE, before |-> current,
          derived |-> None, result |-> "none"]
    ELSE IF path \in UnsavedPaths
    THEN [outcome |-> "unsaved", asked |-> FALSE, before |-> current,
          derived |-> None, result |-> "none"]
    ELSE IF SgtkFromPath(path) = "TankError"
    THEN [outcome |-> "no_tk", asked |-> FALSE, before |-> current,
          derived |-> None, result |-> "none"]
    ELSE IF ContextDiffers(DerivedContext(path), current)
    THEN [outcome |-> "asked", asked |-> TRUE, before |-> current,
          derived |-> DerivedContext(path), result |-> "none"]
    ELSE [outcome |-> "same", asked |-> FALSE, before |-> current,
          derived |-> DerivedContext(path), result |-> "none"]

\* A refresh_engine without its except clause
CaughtByRefreshNever(result) == FALSE

\* except tank.TankError of refresh_engine
CaughtByRefresh(result) == result = "TankError"

\* An on_scene_event_callback without its except clause
CaughtByCallbackNever(result) == FALSE

\* except Exception of on_scene_event_callback
CaughtByCallback(result) == TRUE

\* engine.create_shotgun_menu as a step of a larger operation
ShotgunMenu(disabled, ctx) ==
    IF has_ui
    THEN \E h \in HandleOutcomes :
           SetMenu(h,
                   CreateMenuOn(h, <<>>, TRUE, disabled,
                                commands, favourites, ctx),
                   disabled, <<>>, Loop)
    ELSE UNCHANGED menuVars

\* BlenderEngine.post_context_change: everything it does hangs on the
\* automatic_context_switch setting
PostContextChange(old, new) ==
    /\ HandlersSetUp
    /\ IF automatic_context_switch /\ old # new
       THEN ShotgunMenu(FALSE, new)
       ELSE UNCHANGED menuVars
    /\ lastHook' = [op |-> "post_context_change", old |-> old, new |-> new,
                    setup |-> automatic_context_switch,
                    menu |-> automatic_context_switch /\ old # new]

\* create_shotgun_menu raised inside post_context_change
HookRaised == lastHook'.menu /\ has_ui /\ lastCall'.err # NoError

\* An exception leaves refresh_engine: on_scene_event_callback reports it,
\* or it reaches the host
Report(n) ==
    /\ reported' = IF CaughtByCallback("Exception") THEN reported + n ELSE reported
    /\ host_errors' = IF CaughtByCallback("Exception") THEN host_errors
                      ELSE host_errors + n

\* init_engine and post_app_init: the handlers are set up when the setting
\* asks for it, the engine becomes the current one and creates its menu
StartEngine ==
    /\ ~current_engine
    /\ lastHook.op = "none"
    /\ current_engine' = TRUE
    /\ HandlersSetUp
    /\ ShotgunMenu(FALSE, context)
    /\ lastHook' = [NoHook EXCEPT !.op = "init_engine",
                                  !.setup = automatic_context_switch]
    /\ UNCHANGED <<inputVars, loopVars, uiVars, startVars, automatic_context_switch,
                   sceneVars>>

\* The host loads or saves a scene and starts on the handlers of the event
SceneEvent(kind, path) ==
    /\ dispatch.kind = "none"
    /\ events < MaxEvents
    /\ path \in UnsavedPaths => kind = "load"
    /\ filepath' = path
    /\ dispatch' = [kind |-> kind, pos |-> 0]
    /\ events' = events + 1
    /\ UNCHANGED <<inputVars, menuVars, loopVars, uiVars, startVars,
                   automatic_context_switch, current_engine, handlerVars,
                   lastRefresh, lastHook, reported, host_errors>>

Handlers(kind) == IF kind = "load" THEN load_post ELSE save_post

\* refresh_engine returns before it asks for anything
RefreshReturns(plan) ==
    /\ ~plan.asked
    /\ lastRefresh' = plan
    /\ UNCHANGED <<context, menuVars, handlerVars, lastHook, reported,
                   host_errors>>

\* engine.change_context(ctx) succeeds: the engine has the new context and
\* post_context_change runs
RefreshChanges(plan) ==
    /\ plan.asked
    /\ context' = plan.derived
    /\ PostContextChange(context, plan.derived)
    /\ lastRefresh' = [plan EXCEPT !.outcome = IF HookRaised THEN "raised"
                                               ELSE "changed",
                                   !.result = "ok"]
    /\ Report(IF HookRaised THEN 1 ELSE 0)

\* engine.change_context(ctx) raises: a TankError disables the menu,
\* anything else leaves refresh_engine
RefreshFails(plan, result) ==
    /\ plan.asked
    /\ IF CaughtByRefresh(result)
       THEN /\ ShotgunMenu(TRUE, context)
            /\ lastRefresh' = [plan EXCEPT !.outcome = "failed",
                                           !.result = result]
            /\ UNCHANGED <<reported, host_errors>>
       ELSE /\ lastRefresh' = [plan EXCEPT !.outcome = "raised",
                                           !.result = result]
            /\ Report(1)
            /\ UNCHANGED menuVars
    /\ UNCHANGED <<context, handlerVars, lastHook>>

\* The host calls the next handler of the list it is running:
\* on_scene_event_callback, and refresh_engine in it. engine.change_context
\* changes the context, or Toolkit refuses with a TankError, or anything
\* else is raised
OnSceneEventCallback ==
    /\ dispatch.kind # "none"
    /\ dispatch.pos < Len(Handlers(dispatch.kind))
    /\ \/ RefreshReturns(RefreshEngine(current_engine, filepath, context))
       \/ RefreshChanges(RefreshEngine(current_engine, filepath, context))
       \/ \E result \in {"TankError", "Exception"} :
            RefreshFails(RefreshEngine(current_engine, filepath, context), result)
    /\ dispatch' = [dispatch EXCEPT !.pos = @ + 1]
    /\ UNCHANGED <<commands, favourites, has_ui, platform, loopVars, uiVars, startVars,
                   automatic_context_switch, current_engine, filepath, events>>

\* The host has called every handler of the list
EventHandled ==
    /\ dispatch.kind # "none"
    /\ dispatch.pos >= Len(Handlers(dispatch.kind))
    /\ dispatch' = [dispatch EXCEPT !.kind = "none"]
    /\ UNCHANGED <<inputVars, menuVars, loopVars, uiVars, startVars,
                   automatic_context_switch, current_engine, handlerVars,
                   filepath, lastRefresh, lastHook, reported, host_errors,
                   events>>

\* An app changes the engine's context, also to the context it has
ChangeContext(new) ==
    /\ current_engine
    /\ dispatch.kind = "none"
    /\ events < MaxEvents
    /\ context' = new
    /\ PostContextChange(context, new)
    /\ events' = events + 1
    /\ UNCHANGED <<commands, favourites, has_ui, platform, loopVars, uiVars, startVars,
                   automatic_context_switch, current_engine, filepath,
                   dispatch, lastRefresh, reported, host_errors>>

\* The host exits: atexit runs teardown_app_handlers
AtExit ==
    /\ dispatch.kind = "none"
    /\ lastHook.op # "teardown_app_handlers"
    /\ Contains(load_post, OnSceneEvent)
    /\ load_post' = TeardownAppHandlers(load_post)
    /\ save_post' = TeardownAppHandlers(save_post)
    /\ lastHook' = [NoHook EXCEPT !.op = "teardown_app_handlers"]
    /\ UNCHANGED <<inputVars, menuVars, loopVars, uiVars, startVars,
                   automatic_context_switch, current_engine, sceneVars>>

\* BlenderEngine.destroy_engine: the engine is gone, its handlers are not
DestroyEngine ==
    /\ current_engine
    /\ dispatch.kind = "none"
    /\ handle # "none"
    /\ current_engine' = FALSE
    /\ lastHook' = [NoHook EXCEPT !.op = "destroy_engine"]
    /\ UNCHANGED <<inputVars, menuVars, loopVars, uiVars, startVars,
                   automatic_context_switch, handlerVars, sceneVars>>

SceneContexts == {ShotContext, AssetContext, ProjectContext}

\* An engine about to start in a shot, with or without the setting
InitContext ==
    /\ commands \in CommandItems({Cmd(A, "app1", "default"),
                                  Cmd(A_B, "app1", "default")}, 1)
    /\ favourites = <<>>
    /\ context = ShotContext
    /\ has_ui = TRUE
    /\ platform = "linux"
    /\ MenuInitState
    /\ automatic_context_switch \in BOOLEAN
    /\ current_engine = FALSE
    /\ filepath = ""
    /\ load_post = <<>>
    /\ save_post = <<>>
    /\ dispatch = NoDispatch
    /\ lastRefresh = NoRefresh
    /\ lastHook = NoHook
    /\ reported = 0
    /\ host_errors = 0
    /\ events = 0
    /\ StartIdle

NextContext ==
    \/ StartEngine
    \/ \E kind \in {"load", "save"}, path \in ScenePaths : SceneEvent(kind, path)
    \/ OnSceneEventCallback
    \/ EventHandled
    \/ \E new \in SceneContexts : ChangeContext(new)
    \/ AtExit
    \/ DestroyEngine

SpecContext == InitContext /\ [][NextContext]_vars

-----------------------------------------------------------------------------
(* Commands run at startup *)

\* app_instance.instance_name
InstanceName(app) ==
    EngineApps[CHOOSE i \in 1..Len(EngineApps) : EngineApps[i].app = app].instance

\* A dictionary that holds every command for every app instance
AllCommands(cmds, instance) == cmds

\* app_instance_commands.get(app_instance_name): the commands the instance
\* registered, in registration order; empty stands for None
AppInstanceCommands(cmds, instance) ==
    SelectSeq(cmds, LAMBDA c : c.app # NoApp /\ InstanceName(c.app) = instance)

\* command_function() called for entry i: what it ran, and whether it raised
RunCommand(j, i, cmd) ==
    [j EXCEPT !.log = Append(@, [kind |-> "run", entry |-> i, name |-> cmd.name,
                                 app |-> cmd.app]),
              !.raised = cmd.callback = "raise"]

\* self.logger.warning for entry i
Warning(j, i, kind, name) ==
    [j EXCEPT !.log = Append(@, [kind |-> kind, entry |-> i, name |-> name,
                                 app |-> NoApp])]

\* for (cmd_name, command_function) in cmd_dict.items(), until one raises
RECURSIVE RunAll(_, _, _)
RunAll(j, i, cmd_dict) ==
    IF cmd_dict = <<>> \/ j.raised THEN j
    ELSE RunAll(RunCommand(j, i, Head(cmd_dict)), i, Tail(cmd_dict))

\* cmd_dict.get(setting_cmd_name)
Get(cmd_dict, name) == SelectSeq(cmd_dict, LAMBDA c : c.name = name)

\* The body of the loop over run_at_startup, for entry i
RunEntry(j, i, entry, cmd_dict) ==
    IF cmd_dict = <<>>
    THEN Warning(j, i, "not_installed", entry.name)
    ELSE IF entry.name = None
    THEN RunAll(j, i, cmd_dict)
    ELSE IF Get(cmd_dict, entry.name) # <<>>
    THEN RunCommand(j, i, Head(Get(cmd_dict, entry.name)))
    ELSE Warning(j, i, "unknown_command", entry.name)

\* BlenderEngine._run_app_instance_commands from entry i on: an exception
\* of a command leaves the loop
RECURSIVE RunAppInstanceCommands(_, _, _, _)
RunAppInstanceCommands(j, i, entries, cmds) ==
    IF i > Len(entries) \/ j.raised THEN [j EXCEPT !.done = TRUE]
    ELSE RunAppInstanceCommands(
             RunEntry(j, i, entries[i],
                      AppInstanceCommands(cmds, entries[i].app_instance)),
             i + 1, entries, cmds)

\* post_app_init runs the startup commands of the configuration
RunAtStartup ==
    /\ ~startup.done
    /\ startup' = RunAppInstanceCommands(NoStartup, 1, run_at_startup, commands)
    /\ UNCHANGED <<inputVars, menuVars, loopVars, uiVars,
                   automatic_context_switch, current_engine, handlerVars,
                   sceneVars, lastHook, run_at_startup, environ, boot>>

\* The commands the startup specification draws engine.commands from
StartupUniverse ==
    { Cmd(A, "app1", "default"), Cmd(B, "app1", "default"),
      [Cmd(A_B, "app1", "default") EXCEPT !.callback = "raise"],
      Cmd(B, "app2", "default"), Cmd(C, NoApp, "default") }

\* run_at_startup entries: an app instance with every command or with one,
\* an instance that registered nothing or is not installed
StartupEntries ==
    { Fav("loader", None), Fav("loader", A), Fav("loader", C),
      Fav("publish", None), Fav("publish", B), Fav("review", None),
      Fav("review", A) }

InitStartup ==
    /\ commands \in CommandItems(StartupUniverse, MaxCmds)
    /\ favourites = <<>>
    /\ context \in Contexts
    /\ has_ui = TRUE
    /\ platform = "linux"
    /\ MenuInitState
    /\ automatic_context_switch = TRUE
    /\ current_engine = TRUE
    /\ filepath = ""
    /\ load_post = <<>>
    /\ save_post = <<>>
    /\ dispatch = NoDispatch
    /\ lastRefresh = NoRefresh
    /\ lastHook = NoHook
    /\ reported = 0
    /\ host_errors = 0
    /\ events = 0
    /\ run_at_startup \in UNION { [1..k -> StartupEntries] : k \in 0..MaxEntries }
    /\ startup = NoStartup
    /\ environ = NoEnviron
    /\ boot = NoBoot

SpecStartup == InitStartup /\ [][RunAtStartup]_vars

-----------------------------------------------------------------------------
(* The bootstrap: startup/bootstrap.py *)

\* not os.environ.get(var): the variable is not set, or set to ''
Missing(value) == value \in {"unset", "empty"}

\* sgtk.context.deserialize raises on anything but a serialized context
Deserialize(value) == IF value = "valid" THEN "context" ELSE "raise"

\* A bootstrap that never finds an engine running
EngineRunningNever(running) == FALSE

\* engine = sgtk.platform.current_engine(); if not engine
EngineRunning(running) == running

Classic(trace, running, fresh) ==
    [trace |-> trace, running |-> running, fresh |-> fresh]

\* start_toolkit_classic: what it reports and calls, whether an engine is
\* running afterwards, and how many engines it started;
\* sgtk.platform.start_engine returns ("ok") or raises
StartToolkitClassic(env, running, start) ==
    IF Missing(env.SGTK_ENGINE)
    THEN Classic(<<"report_engine">>, running, 0)
    ELSE IF Missing(env.SGTK_CONTEXT)
    THEN Classic(<<"report_context">>, running, 0)
    ELSE IF Deserialize(env.SGTK_CONTEXT) = "raise"
    THEN Classic(<<"report_deserialize">>, running, 0)
    ELSE IF EngineRunning(running)
    THEN Classic(<<>>, running, 0)
    ELSE IF start = "ok"
    THEN Classic(<<"start_engine">>, TRUE, 1)
    ELSE Classic(<<"start_engine", "report_start">>, running, 0)

\* if file_to_open: bpy.ops.wm.open_mainfile(filepath=file_to_open)
OpenFile(trace, env) ==
    IF Missing(env.SGTK_FILE_TO_OPEN) THEN trace ELSE Append(trace, "open_file")

\* A clean-up that deletes nothing
CleanUpNothing(env) == env

\* del os.environ[var] for the three variables
CleanUp(env) == NoEnviron

\* The record of a bootstrap call
Booted(op, r, trace, ended) ==
    [calls |-> boot.calls + 1, started |-> boot.started + r.fresh, op |-> op,
     trace |-> trace, ended |-> ended, env |-> environ,
     running |-> current_engine]

\* start_toolkit_classic is called
CallStartToolkitClassic ==
    /\ boot.calls < MaxCalls
    /\ \E start \in {"ok", "raise"} :
          /\ current_engine' =
                 StartToolkitClassic(environ, current_engine, start).running
          /\ boot' = Booted("start_toolkit_classic",
                            StartToolkitClassic(environ, current_engine, start),
                            StartToolkitClassic(environ, current_engine, start).trace,
                            "returned")
    /\ UNCHANGED <<inputVars, menuVars, loopVars, uiVars,
                   automatic_context_switch, handlerVars, sceneVars, lastHook,
                   run_at_startup, startup, environ>>

\* start_toolkit is called: start_toolkit_classic, the file to open, the
\* clean-up of the environment; open_mainfile may raise
CallStartToolkit ==
    /\ boot.calls < MaxCalls
    /\ \E start, open \in {"ok", "raise"} :
          /\ current_engine' =
                 StartToolkitClassic(environ, current_engine, start).running
          /\ IF open = "raise" /\ ~Missing(environ.SGTK_FILE_TO_OPEN)
             THEN /\ environ' = environ
                  /\ boot' = Booted("start_toolkit",
                         StartToolkitClassic(environ, current_engine, start),
                         OpenFile(StartToolkitClassic(environ, current_engine,
                                                      start).trace, environ),
                         "raised")
             ELSE /\ environ' = CleanUp(environ)
                  /\ boot' = Booted("start_toolkit",
                         StartToolkitClassic(environ, current_engine, start),
                         OpenFile(StartToolkitClassic(environ, current_engine,
                                                      start).trace, environ),
                         "returned")
    /\ UNCHANGED <<inputVars, menuVars, loopVars, uiVars,
                   automatic_context_switch, handlerVars, sceneVars, lastHook,
                   run_at_startup, startup>>

\* The environments the launcher, or anything else, may leave
Environs ==
    [SGTK_ENGINE : {"unset", "empty", "set"},
     SGTK_CONTEXT : {"unset", "empty", "valid", "garbage"},
     SGTK_FILE_TO_OPEN : {"unset", "empty", "set"}]

\* The host process starts, with or without an engine already running
InitBoot ==
    /\ commands = <<>>
    /\ favourites = <<>>
    /\ context \in Contexts
    /\ has_ui = TRUE
    /\ platform = "linux"
    /\ MenuInitState
    /\ automatic_context_switch = TRUE
    /\ current_engine \in BOOLEAN
    /\ filepath = ""
    /\ load_post = <<>>
    /\ save_post = <<>>
    /\ dispatch = NoDispatch
    /\ lastRefresh = NoRefresh
    /\ lastHook = NoHook
    /\ reported = 0
    /\ host_errors = 0
    /\ events = 0
    /\ run_at_startup = <<>>
    /\ startup = NoStartup
    /\ environ \in Environs
    /\ boot = NoBoot

NextBoot == CallStartToolkitClassic \/ CallStartToolkit

SpecBoot == InitBoot /\ [][NextBoot]_vars

-----------------------------------------------------------------------------
(* Reading the rendered menu *)

\* create_menu(disabled=False) ran on a menu handle
Built == lastCall.op = "create_menu" /\ ~lastCall.disabled /\ handle = "menu"

\* ... and returned without raising
Returned == Built /\ lastCall.err = NoError

\* create_menu(disabled=True) ran on a menu handle
BuiltDisabled == lastCall.op = "create_menu" /\ lastCall.disabled /\ handle = "menu"

Indices == [i \in 1..Len(nodes) |-> i]

\* The entries of the top-level menu, in display order
RootChildren == SelectSeq(Indices, LAMBDA i : nodes[i].parent = Root)

\* The dividers of the top-level menu, in display order
RootSeps ==
    SelectSeq(Indices, LAMBDA i : nodes[i].parent = Root /\ nodes[i].kind = "separator")

\* The top-level entry a node is, or lies under
RECURSIVE TopAncestor(_)
TopAncestor(i) == IF nodes[i].parent = Root THEN i ELSE TopAncestor(nodes[i].parent)

\* The menus a node lies under
RECURSIVE Ancestors(_)
Ancestors(i) ==
    IF nodes[i].parent = Root THEN {}
    ELSE {nodes[i].parent} \cup Ancestors(nodes[i].parent)

\* The labels of the submenus that lead to a node, outermost first
RECURSIVE PathLabels(_)
PathLabels(i) ==
    IF nodes[i].parent = Root THEN <<>>
    ELSE Append(PathLabels(nodes[i].parent), nodes[nodes[i].parent].label)

\* The actions rendered for the command of that name
Leaves(name) ==
    {i \in 1..Len(nodes) : nodes[i].kind = "action" /\ nodes[i].cb = name}

Cmds == {commands[i] : i \in 1..Len(commands)}

MatchesFavourite(cmd) ==
    \E i \in 1..Len(favourites) :
        /\ GetAppInstanceName(cmd) = favourites[i].app_instance
        /\ cmd.name = favourites[i].name

\* The context submenu: the first entry of the top-level menu
InContextMenu(n) == TopAncestor(n) = RootChildren[1]

\* Between the first and the second top-level divider
InFavouritesSection(n) ==
    /\ Len(RootSeps) >= 1
    /\ TopAncestor(n) > RootSeps[1]
    /\ Len(RootSeps) >= 2 => TopAncestor(n) < RootSeps[2]

\* After the second top-level divider
InAppSection(n) == Len(RootSeps) >= 2 /\ TopAncestor(n) > RootSeps[2]

\* The action n carries the last segment of the name and lies under
\* submenus that carry the segments before it, in order
AtSegmentedPath(n, name) ==
    LET parts == Split(name)
        k == Len(parts) - 1
        path == PathLabels(n)
    IN /\ nodes[n].label = parts[k + 1]
       /\ Len(path) >= k
       /\ SubSeq(path, Len(path) - k + 1, Len(path)) = SubSeq(parts, 1, k)

IsSegmented(cmd) == Len(Split(cmd.name)) > 1

\* No command carries a property whose application raises
NoFaultyProps == \A c \in Cmds : ~c.tooltip /\ c.enable # "raise"

-----------------------------------------------------------------------------
(* Claims on the rendered menu, checked under Spec *)

\* C1: after create_menu(disabled=False) every command is exactly one leaf
\* action of the menu, at the submenu path given by splitting its name on "/".
C1_EveryCommandOneLeaf ==
    Built =>
        \A c \in Cmds :
            /\ Cardinality(Leaves(c.name)) = 1
            /\ \A n \in Leaves(c.name) : AtSegmentedPath(n, c.name)

\* C2: a command that matches a configured favourite is rendered in the
\* top-level favourites section and not again in its application's group,
\* also when that application has several commands and gets a submenu.
C2_FavouriteOnlyInFavourites ==
    Returned =>
        \A c \in Cmds :
            MatchesFavourite(c) =>
                /\ \E n \in Leaves(c.name) :
                       nodes[n].parent = Root /\ InFavouritesSection(n)
                /\ \A n \in Leaves(c.name) : ~InAppSection(n)

C4_NestedSubmenus ==
    (Built /\ NoFaultyProps) =>
        \A c \in Cmds :
            IsSegmented(c) =>
                \E n \in Leaves(c.name) : AtSegmentedPath(n, c.name)

\* Two commands that create_menu places under the same menu
SameTarget(c, d) ==
    \/ c.type = "context_menu" /\ d.type = "context_menu"
    \/ /\ c.type # "context_menu" /\ d.type # "context_menu"
       /\ GroupLabel(c) = GroupLabel(d)

\* C5: two commands placed under the same menu whose names share the first
\* segment lie under one and the same submenu labelled with that segment,
\* which has no sibling submenu of the same label.
C5_SharedPrefixSubmenu ==
    (Built /\ NoFaultyProps) =>
        \A c, d \in Cmds :
            ( /\ c.name # d.name
              /\ IsSegmented(c) /\ IsSegmented(d)
              /\ Split(c.name)[1] = Split(d.name)[1]
              /\ SameTarget(c, d) ) =>
                \E m \in 1..Len(nodes) :
                    /\ nodes[m].kind = "menu"
                    /\ nodes[m].label = Split(c.name)[1]
                    /\ \E n \in Leaves(c.name) : m \in Ancestors(n)
                    /\ \E n \in Leaves(d.name) : m \in Ancestors(n)
                    /\ \A o \in 1..Len(nodes) :
                           ( /\ o # m
                             /\ nodes[o].kind = "menu"
                             /\ nodes[o].parent = nodes[m].parent )
                           => nodes[o].label # nodes[m].label

\* C6: create_menu(disabled=True) leaves the menu with exactly one entry, the
\* "Sgtk is disabled." label with no callback, whatever the engine's commands
\* and favourites are and whatever the menu held before.
C6_DisabledMenuIsOneLabel ==
    BuiltDisabled =>
        /\ Len(nodes) = 1
        /\ nodes[1].label = DisabledLabel
        /\ nodes[1].parent = Root
        /\ nodes[1].kind \notin {"action", "separator"}
        /\ nodes[1].cb = None

\* create_menu(disabled=True) on a generator whose menu was fully rendered
C6_Witness ==
    /\ BuiltDisabled
    /\ lastCall.before > 1
    /\ commands # <<>>
    /\ favourites # <<>>

\* The app group a top-level entry of the app section stands for
EntryGroup(i) ==
    IF nodes[i].kind = "menu" THEN nodes[i].label
    ELSE GroupLabel(Command(nodes[i].cb))

\* C10: with disabled=False the top-level menu is the context submenu, a
\* divider, the matched favourites, a divider, the app groups in ascending
\* order of group label, and a trailing divider.
C10_TopLevelOrder ==
    Built =>
        LET rc == RootChildren
            seps == RootSeps
        IN /\ Len(rc) >= 4
           /\ nodes[rc[1]].kind = "menu"
           /\ nodes[rc[1]].label = context.name
           /\ Len(seps) = 3
           /\ seps[1] = rc[2]
           /\ seps[3] = rc[Len(rc)]
           /\ \A j \in 1..Len(rc) :
                (seps[1] < rc[j] /\ rc[j] < seps[2]) =>
                    /\ nodes[rc[j]].kind = "action"
                    /\ \E c \in Cmds : c.name = nodes[rc[j]].cb /\ MatchesFavourite(c)
           /\ \A j \in 1..Len(rc) :
                (seps[2] < rc[j] /\ rc[j] < seps[3]) =>
                    nodes[rc[j]].kind \in {"menu", "action"}
           /\ \A j \in 1..(Len(rc) - 1) :
                (seps[2] < rc[j] /\ rc[j + 1] < seps[3]) =>
                    StrLess(EntryGroup(rc[j]), EntryGroup(rc[j + 1]))

-----------------------------------------------------------------------------
(* Claims on the app groups and on the function create_menu computes,      *)
(* checked under Spec                                                      *)

\* The commands filed under a label of commands_by_app
Group(label) == {c \in Cmds : ~IsContextCommand(c) /\ GroupLabel(c) = label}

\* The submenus of the app section that carry a group's label
GroupMenus(label) ==
    {m \in 1..Len(nodes) :
        /\ nodes[m].kind = "menu"
        /\ nodes[m].parent = Root
        /\ nodes[m].label = label
        /\ InAppSection(m)}

\* The actions under a menu, at any depth
ActionsUnder(m) ==
    {n \in 1..Len(nodes) : nodes[n].kind = "action" /\ m \in Ancestors(n)}

\* The action n is the leaf of the command name, placed from menu m (Root for
\* the top-level menu) along the segments of the name
PlacedFrom(n, name, m) ==
    /\ AtSegmentedPath(n, name)
    /\ IF m = Root
       THEN Len(PathLabels(n)) = Len(Split(name)) - 1
       ELSE /\ m \in Ancestors(n)
            /\ Len(PathLabels(n)) = Len(PathLabels(m)) + Len(Split(name))

\* C11: commands that are not of type context_menu are grouped by the display
\* name of their app, "Other Items" without app; a group of several commands
\* is one submenu labelled with the group name that holds all its commands in
\* ascending name order, a group of one command is that command directly in
\* the top-level menu unless it was rendered as a favourite.
C11_AppGroups ==
    Built =>
        \A c \in Cmds :
            ~IsContextCommand(c) =>
                LET label == GroupLabel(c) IN
                IF Cardinality(Group(label)) > 1
                THEN /\ Cardinality(GroupMenus(label)) = 1
                     /\ \A m \in GroupMenus(label) :
                          /\ \E n \in Leaves(c.name) : PlacedFrom(n, c.name, m)
                          /\ Cardinality(ActionsUnder(m)) = Cardinality(Group(label))
                          /\ \A n1, n2 \in ActionsUnder(m) :
                                n1 < n2 => StrLess(nodes[n1].cb, nodes[n2].cb)
                ELSE /\ GroupMenus(label) = {}
                     /\ IF MatchesFavourite(c)
                        THEN \A n \in Leaves(c.name) : ~InAppSection(n)
                        ELSE /\ \E n \in Leaves(c.name) :
                                   InAppSection(n) /\ PlacedFrom(n, c.name, Root)
                             /\ Cardinality(Leaves(c.name)) = 1


\* C12: the rendered menu is a function of the set of commands, the
\* favourites and the context: a create_menu run on the same entries in
\* another insertion order gives the same entries, nesting and order (and
\* ends the same way) as the run before it. Checked under SpecReorder.
C12_OrderIndependent ==
    [][ (Built /\ Built') =>
            /\ nodes' = nodes
            /\ enabled' = enabled
            /\ lastCall'.err = lastCall.err ]_vars

\* A menu rendered in full from two commands inserted in descending name order
C12_Witness ==
    /\ Returned
    /\ Len(commands) = 2
    /\ StrLess(commands[2].name, commands[1].name)
    /\ \A c \in Cmds : Leaves(c.name) # {}

\* C13: the entries of the menu after create_menu depend only on the inputs
\* of that call: nothing an earlier call rendered survives, the menu is the
\* one a single call renders on a new, empty menu. Checked under Spec.
C13_RebuiltFromScratch ==
    (lastCall.op = "create_menu" /\ handle = "menu") =>
        nodes = CreateMenuOn("menu", <<>>, TRUE, lastCall.disabled,
                             commands, favourites, context).nodes

\* create_menu(disabled=False) ran on a handle that held rendered entries
C13_Witness ==
    /\ Built
    /\ lastCall.before > 1
    /\ Len(nodes) > 1
    /\ commands # <<>>

\* create_menu ran on a generator whose QMenu could not be created
BailedOut == lastCall.op = "create_menu" /\ handle = "null"

\* C14: when the menu handle could not be created, create_menu returns
\* without raising, without reading the engine's commands or favourites and
\* without adding or removing an entry, for disabled=True and disabled=False.
C14_NoHandleNoOp ==
    BailedOut =>
        /\ lastCall.err = NoError
        /\ lastCall.reads = {}
        /\ Len(nodes) = lastCall.before
        /\ nodes = <<>>

\* create_menu(disabled=False) bailed out with commands and favourites there
C14_Witness ==
    /\ BailedOut
    /\ ~lastCall.disabled
    /\ commands # <<>>
    /\ favourites # <<>>

\* The favourite entry is the app instance and name of some command
Matched(fav) ==
    \E c \in Cmds : GetAppInstanceName(c) = fav.app_instance /\ c.name = fav.name

\* The names of the configured favourites that match a command, in
\* configuration order
MatchedNames ==
    LET hits == SelectSeq(favourites, Matched)
    IN [i \in 1..Len(hits) |-> hits[i].name]

\* The commands behind the actions of the favourites section, in display order
FavouriteLeaves ==
    LET shown == SelectSeq(Indices,
                           LAMBDA n : nodes[n].kind = "action" /\ InFavouritesSection(n))
    IN [i \in 1..Len(shown) |-> nodes[shown[i]].cb]

\* C15: for each entry of menu_favourites, in configuration order, create_menu
\* renders into the top-level menu the command whose app instance name and
\* name equal the entry's; the favourites section shows the matched commands
\* in configuration order, each at the path of its name, not in name order.
C15_FavouritesInConfigOrder ==
    Built =>
        /\ FavouriteLeaves = MatchedNames
        /\ \A n \in 1..Len(nodes) :
              (nodes[n].kind = "action" /\ InFavouritesSection(n)) =>
                  PlacedFrom(n, nodes[n].cb, Root)

\* C16: a menu_favourites entry that matches no command is skipped: it
\* raises nothing, logs nothing and adds no entry, and the menu is rendered
\* (and the call ends) exactly as without that entry in the configuration.
C16_UnmatchedFavouriteSkipped ==
    Built =>
        \A i \in 1..Len(favourites) :
            ~Matched(favourites[i]) =>
                /\ CreateMenuOn("menu", <<>>, TRUE, FALSE, commands,
                                RemoveAt(favourites, i), context)
                     = [nodes |-> nodes, enabled |-> enabled,
                        err |-> lastCall.err, reads |-> lastCall.reads]
                /\ logged = lastCall.faults

\* A menu rendered in full with one favourite matched and one unmatched
C16_Witness ==
    /\ Returned
    /\ \E i \in 1..Len(favourites) : ~Matched(favourites[i])
    /\ \E i \in 1..Len(favourites) : Matched(favourites[i])
    /\ FavouriteLeaves # <<>>

\* The entries directly under menu m, in display order
ChildrenOf(m) == SelectSeq(Indices, LAMBDA i : nodes[i].parent = m)

\* The entries the context submenu starts with: 4 with a "Jump to File
\* System" action, 3 without
ContextHeader == IF context.filesystem_locations # <<>> THEN 4 ELSE 3

\* The commands behind the actions under menu m that come after its first
\* k entries, in display order
LeavesAfter(m, k) ==
    LET shown == SelectSeq(Indices,
                           LAMBDA n : /\ nodes[n].kind = "action"
                                      /\ m \in Ancestors(n)
                                      /\ n > ChildrenOf(m)[k])
    IN [i \in 1..Len(shown) |-> nodes[shown[i]].cb]

IsAction(n, label, cb) ==
    nodes[n].kind = "action" /\ nodes[n].label = label /\ nodes[n].cb = cb

\* C17: with disabled=False the context submenu is the first item of the
\* menu and holds, in order: a divider, "Jump to Shotgun", "Jump to File
\* System" if and only if the context has a filesystem location, a divider,
\* and then the commands of type context_menu in ascending name order.
C17_ContextSubmenu ==
    Built =>
        LET m == RootChildren[1]
            kids == ChildrenOf(m)
            k == ContextHeader
            shown == LeavesAfter(m, k)
        IN /\ nodes[m].kind = "menu"
           /\ nodes[m].label = context.name
           /\ Len(kids) >= k
           /\ nodes[kids[1]].kind = "separator"
           /\ IsAction(kids[2], JumpToShotgunLabel, JumpToSg)
           /\ k = 4 => IsAction(kids[3], JumpToFileSystemLabel, JumpToFs)
           /\ nodes[kids[k]].kind = "separator"
           /\ (k = 3) => \A n \in 1..Len(nodes) : nodes[n].cb # JumpToFs
           /\ \A c \in Cmds :
                 IsContextCommand(c) <=> \E i \in 1..Len(shown) : shown[i] = c.name
           /\ \A i, j \in 1..Len(shown) : i < j => StrLess(shown[i], shown[j])

-----------------------------------------------------------------------------
(* Claims on the deferred callbacks, checked under SpecDispatch (C7, C8)   *)
(* and SpecDeliver (C9)                                                    *)

Count(q, cb) == Cardinality({i \in 1..Len(q) : q[i] = cb})

Runs(cb) == Cardinality({i \in 1..Len(executed) : executed[i].cb = cb})

Faults == Cardinality({i \in 1..Len(executed) : executed[i].raised})

C8_CallbackDeferred ==
    [][ /\ triggered' # triggered =>
              /\ executed' = executed
              /\ logged' = logged
              /\ triggered' = Append(triggered, triggered'[Len(triggered')])
              /\ pending' = Append(pending, triggered'[Len(triggered')])
        /\ executed' # executed =>
              /\ triggered' = triggered
              /\ Len(executed') = Len(executed) + 1
              /\ \E i \in 1..Len(pending) :
                    /\ pending[i] = executed'[Len(executed')].cb
                    /\ pending' = RemoveAt(pending, i) ]_vars

\* An action was triggered and its callback has not run yet
C8_Witness ==
    /\ Len(triggered) = 1
    /\ pending = triggered
    /\ executed = <<>>

-----------------------------------------------------------------------------
(* Claims on the "Jump to File System" action, checked under SpecJump      *)

\* sys.platform on Linux, macOS and Windows
SupportedPlatforms == {"linux", "darwin", "win32"}

\* The executions that ran _jump_to_fs
JumpRuns == {k \in 1..Len(executed) : executed[k].cb = JumpToFs}

\* What run k of _jump_to_fs did, in order
JournalOf(k) == SelectSeq(jumps, LAMBDA j : j.run = k)

\* The locations run k issued an open command for, in order
LaunchedPaths(k) ==
    LET launches == SelectSeq(jumps, LAMBDA j : j.run = k /\ j.kind = "launch")
    IN [i \in 1..Len(launches) |-> launches[i].path]

\* C18: on a supported platform a run of "Jump to File System" issues one
\* open command for every filesystem location of the context, in list order:
\* n launches for n locations, a launch that fails not stopping the rest.
C18_OneLaunchPerLocation ==
    platform \in SupportedPlatforms =>
        \A k \in JumpRuns : LaunchedPaths(k) = context.filesystem_locations

-----------------------------------------------------------------------------
(* Claim on rebuilds and command execution, checked under SpecRebuild      *)

\* A menu no create_menu call is at work on
MenuComplete == ~frame.active

\* Such a menu is what a create_menu call that has ended leaves
CompleteIsRendered ==
    (MenuComplete /\ handle = "menu" /\ lastCall.op = "create_menu") =>
        nodes = CreateMenuOn("menu", <<>>, TRUE, lastCall.disabled,
                             commands, favourites, context).nodes

\* C20: a rebuild is atomic with respect to command execution: a deferred
\* callback starts only when no create_menu call is between its clear and
\* the end of its repopulation, so it finds a complete menu, the previous or
\* the new one; a callback that requests a rebuild itself ends on the new
\* complete menu, and no other callback runs during its rebuild.
C20_RebuildAtomic ==
    /\ []CompleteIsRendered
    /\ [][ /\ Len(pending') < Len(pending) =>
                 /\ MenuComplete
                 /\ frame'.active =>
                       /\ executed' = executed
                       /\ \E i \in 1..Len(pending) :
                             /\ frame'.by = pending[i]
                             /\ pending' = RemoveAt(pending, i)
           /\ executed' # executed =>
                 /\ MenuComplete'
                 /\ frame.active => frame.by = executed'[Len(executed')].cb
           /\ (frame.active /\ frame'.active) =>
                 /\ pending' = pending
                 /\ executed' = executed ]_vars

\* A command rebuilds the menu, the menu is cleared and not rendered yet,
\* and another triggered callback is posted
C20_Witness ==
    /\ frame.active
    /\ frame.by # None
    /\ pending # <<>>
    /\ nodes = <<>>

-----------------------------------------------------------------------------
(* Scene event handlers *)

\* How often a handler list holds on_scene_event_callback
Registered(list) == Cardinality({i \in 1..Len(list) : list[i] = OnSceneEvent})

\* C21: after any sequence of setup_app_handlers and teardown_app_handlers
\* calls, on_scene_event_callback is registered at most once in load_post
\* and at most once in save_post, so one scene load or save triggers at most
\* one engine refresh; after teardown_app_handlers it is in neither list.
C21_RegisteredOnce ==
    /\ Registered(load_post) <= 1
    /\ Registered(save_post) <= 1
    /\ dispatch.pos <= 1
    /\ lastHook.op = "teardown_app_handlers" =>
           Registered(load_post) = 0 /\ Registered(save_post) = 0

\* post_context_change was called in this step
HookCalled == lastHook' # lastHook /\ lastHook'.op = "post_context_change"

\* C22: after post_context_change(old_context, new_context) with different
\* contexts the Shotgun menu has been recreated for the new context,
\* whatever the value of automatic_context_switch; with equal contexts the
\* menu is not recreated.
C22_MenuFollowsContext ==
    [][ HookCalled =>
          IF lastHook'.old # lastHook'.new
          THEN /\ lastCall'.op = "create_menu"
               /\ ~lastCall'.disabled
               /\ lastCall'.before = 0
               /\ handle' = "menu" => nodes'[1].label = lastHook'.new.name
          ELSE UNCHANGED menuVars ]_vars

\* on_scene_event_callback ran in this step
RefreshStep == dispatch'.pos > dispatch.pos

\* refresh_engine has nothing to go by: no engine, no saved scene, or a
\* path no toolkit instance can be derived from
NothingToRefresh ==
    \/ ~current_engine
    \/ filepath \in UnsavedPaths
    \/ SgtkFromPath(filepath) = "TankError"

\* C23: refresh_engine asks the engine to change context only when the
\* context derived from the saved scene path differs from the engine's
\* current context; without a current engine, with an unsaved scene or
\* with a path no toolkit instance can be derived from, it returns without
\* changing the context and without touching the menu.
C23_RefreshOnlyOnDifference ==
    [][ RefreshStep =>
          /\ lastRefresh'.asked =>
                /\ ~NothingToRefresh
                /\ DerivedContext(filepath) # context
          /\ context' # context => lastRefresh'.asked
          /\ NothingToRefresh =>
                /\ ~lastRefresh'.asked
                /\ context' = context
                /\ UNCHANGED menuVars ]_vars

\* A scene of another context was loaded and the engine followed it, then
\* a scene outside Toolkit is loaded and the engine stays where it is
C23_Witness ==
    /\ lastRefresh.outcome = "no_tk"
    /\ lastRefresh.before = AssetContext
    /\ context = AssetContext
    /\ handle = "menu"

\* engine.change_context raised a TankError in this step
ChangeRefused == RefreshStep /\ lastRefresh'.result = "TankError"

\* C24: when refresh_engine attempts a context change and
\* engine.change_context fails with a TankError, the error is not
\* propagated and the Shotgun menu is rebuilt in disabled state (a single
\* 'Sgtk is disabled.' entry); the menu stays disabled until a later
\* successful context change or menu creation.
C24_RefusedChangeDisablesMenu ==
    [][ /\ ChangeRefused =>
              /\ reported' = reported
              /\ host_errors' = host_errors
              /\ context' = context
              /\ lastCall'.op = "create_menu" /\ lastCall'.disabled
              /\ handle' = "menu" =>
                    nodes' = <<Node("menu", DisabledLabel, Root, None)>>
        /\ (BuiltDisabled /\ menuVars' # menuVars) =>
              \/ lastCall'.disabled /\ lastCall'.op = "create_menu"
              \/ HookCalled /\ lastHook'.old # lastHook'.new ]_vars

\* The engine refused the context of the loaded scene and its menu is the
\* one disabled entry
C24_Witness ==
    /\ lastRefresh.result = "TankError"
    /\ lastRefresh.derived = AssetContext
    /\ context = ShotContext
    /\ BuiltDisabled
    /\ Len(nodes) = 1

\* refresh_engine raised in this step
RefreshRaised == RefreshStep /\ lastRefresh'.outcome = "raised"

\* C25: on_scene_event_callback never propagates an exception raised by
\* refresh_engine to the host's load/save handler dispatch: the exception
\* is caught, logged and reported, and the callback returns normally, so
\* later scene events still trigger the callback.
C25_SceneEventTrapped ==
    /\ [](host_errors = 0)
    /\ [][ RefreshRaised =>
             /\ reported' = reported + 1
             /\ dispatch'.kind = dispatch.kind
             /\ Contains(load_post', OnSceneEvent)
             /\ Contains(save_post', OnSceneEvent) ]_vars

\* A refresh raised and was reported, and the callback ran again for a
\* later scene event
C25_Witness ==
    /\ reported = 1
    /\ host_errors = 0
    /\ events = 2
    /\ lastRefresh.outcome = "same"

-----------------------------------------------------------------------------
(* The enabled flag of the menu handle *)

\* create_menu(disabled=False) ran on a menu handle and has ended
Ended == Built /\ ~frame.active

\* C26: create_menu(disabled=False) disables the menu handle before adding
\* any entry and re-enables it only after the last entry is added: the
\* handle is enabled after every normal return, and it stays disabled, with
\* a partially populated menu, when building raises part-way, e.g. when a
\* command's enable_callback raises.
C26_EnabledOnlyWhenComplete ==
    /\ frame.active => ~enabled /\ nodes = <<>>
    /\ (Ended /\ lastCall.err = NoError) =>
          /\ enabled
          /\ nodes[Len(nodes)] = Node("separator", None, Root, None)
    /\ (Ended /\ lastCall.err # NoError) => ~enabled /\ nodes # <<>>

\* The enable_callback of command B raised: its action is in the menu and
\* the handle is left disabled
C26_Witness ==
    /\ Ended
    /\ lastCall.err = "Exception"
    /\ ~enabled
    /\ \E n \in 1..Len(nodes) : nodes[n].kind = "action" /\ nodes[n].cb = B
    /\ \E i \in 1..Len(commands) : commands[i].enable = "raise"

-----------------------------------------------------------------------------
(* Commands run at startup *)

\* The commands app instance name registered, by their position
RegisteredBy(name) ==
    {k \in 1..Len(commands) :
        /\ commands[k].app # NoApp
        /\ \E a \in 1..Len(EngineApps) :
              EngineApps[a].instance = name /\ EngineApps[a].app = commands[k].app}

\* What the log holds for entry i
LogOf(i) == SelectSeq(startup.log, LAMBDA e : e.entry = i)

\* The names of the commands at the positions ks, in registration order
NamesAt(ks) ==
    LET at == SelectSeq([k \in 1..Len(commands) |-> k], LAMBDA k : k \in ks)
    IN [n \in 1..Len(at) |-> commands[at[n]].name]

\* The commands entry i asks for, by their position
AskedBy(i) ==
    {k \in RegisteredBy(run_at_startup[i].app_instance) :
        run_at_startup[i].name \in {None, commands[k].name}}

-----------------------------------------------------------------------------
(* The bootstrap *)

\* The last bootstrap call found everything it needs to start an engine
CanStart ==
    /\ boot.env.SGTK_ENGINE = "set"
    /\ boot.env.SGTK_CONTEXT = "valid"
    /\ ~boot.running

\* ... and so it would, if no engine were running
CouldStart == boot.env.SGTK_ENGINE = "set" /\ boot.env.SGTK_CONTEXT = "valid"

InTrace(step) == \E i \in 1..Len(boot.trace) : boot.trace[i] = step

\* The problems the last call reported
Reports ==
    Cardinality({i \in 1..Len(boot.trace) :
                    boot.trace[i] \in {"report_engine", "report_context",
                                       "report_deserialize", "report_start"}})

\* The last call started an engine
Started == InTrace("start_engine") /\ ~InTrace("report_start")

C29_EnvironmentCleaned ==
    (boot.op = "start_toolkit" /\ boot.ended = "returned") =>
        /\ environ.SGTK_ENGINE = "unset"
        /\ environ.SGTK_CONTEXT = "unset"
        /\ environ.SGTK_FILE_TO_OPEN = "unset"
        /\ boot.env.SGTK_FILE_TO_OPEN = "set" <=> InTrace("open_file")
        /\ InTrace("open_file") => boot.trace[Len(boot.trace)] = "open_file"

\* start_engine raised and was reported, the file was opened all the same
\* and the three variables are gone
C29_Witness ==
    /\ boot.op = "start_toolkit"
    /\ boot.ended = "returned"
    /\ boot.trace = <<"start_engine", "report_start", "open_file">>
    /\ boot.env.SGTK_FILE_TO_OPEN = "set"
    /\ environ = NoEnviron

====
